---- MODULE Spec2Model ----
(***************************************************************************)
(* Model of the live-trading engine core, LiveTradeEngine                  *)
(* (src/src/live_trading/engine.py): the session lifecycle                 *)
(* (connect / start / stop), the market-data callback (_on_market_data)    *)
(* with its payload normalisation, and the signal-to-order translation     *)
(* (_handle_signal).  The gateway (xttrader / xtdata / OrderManager) and   *)
(* the strategy are external: their returns and failures are chosen        *)
(* nondeterministically.                                                   *)
(*                                                                         *)
(* Numbers.  Prices, cash and volumes are integers.  Timestamps are kept   *)
(* in units of 10^7 (TLC integers are 32 bit), so the 1e10 threshold of    *)
(* engine.py:169 is 1000 units; a datetime is the exact rational           *)
(* num/den of such units passed to datetime.fromtimestamp.                 *)
(***************************************************************************)
EXTENDS Integers, Sequences, FiniteSets, TLC

VARIABLES
    xt_trader,      \* self.xt_trader is set (truthy)
    order_manager,  \* self.order_manager is set
    running,        \* self.running
    pc_main,        \* position of the caller's thread inside start()
    connect_ret,    \* what the most recent connect() returned: "none" | "True" | "False"
    n_connects,     \* number of connect() calls made
    acct_subs,      \* number of xt_trader.subscribe(acc) calls made
    quote_subs,     \* symbols passed to xtdata.subscribe_quote so far
    stop_calls,     \* number of stop() calls made
    on_stop_calls,  \* number of strategy.on_stop() calls made
    trader_stops,   \* number of xt_trader.stop() calls made
    cash,           \* gateway: asset.cash as get_asset() would return it now
    positions,      \* gateway: symbol -> volume of the positions held now
    cb,             \* per callback thread: the frame of _on_market_data
    session_ids,    \* the session ids given to XtQuantTrader, one per connect()
    stop_in_start,  \* stop() was called since the start() in progress passed its connection step
    now,            \* the wall clock, int(time.time())
    proc,           \* position of the launching script's main(), "none" without the script
    norm_in,        \* normalisation on its own: the payload
    norm_out        \* normalisation on its own: the result

vars == <<xt_trader, order_manager, running, pc_main, connect_ret, n_connects,
          acct_subs, quote_subs, stop_calls, on_stop_calls, trader_stops,
          cash, positions, cb, session_ids, stop_in_start, now, proc,
          norm_in, norm_out>>

lifecycle == <<xt_trader, order_manager, running, pc_main, connect_ret, n_connects,
               acct_subs, quote_subs, stop_calls, on_stop_calls, trader_stops,
               session_ids, stop_in_start>>

gateway == <<cash, positions>>

\* what neither the engine nor the gateway changes
aside == <<now, norm_in, norm_out>>

----------------------------------------------------------------------------
(* Bounds *)

MaxConnects == 2
MaxStopCalls == 2
MaxClock == 1

(* Program constants *)

LotSize == 100
MsThreshold == 1000
BarFields == 6

----------------------------------------------------------------------------
(* Universe of inputs *)

\* self.symbols, in the order of the list
EngineSymbols == <<"A", "B">>

SubscribedSet == {EngineSymbols[i] : i \in 1..Len(EngineSymbols)}

\* "X" is a symbol the gateway may report although it is not in self.symbols
AllSymbols == SubscribedSet \cup {"X"}

Threads == {1, 2}

NoneV == -1   \* Python None where a number is expected
NaN == -2     \* a field float() cannot convert (raises ValueError)

MsTs == MsThreshold * 170      \* a millisecond timestamp (1.7e12)
SecTs == MsThreshold \div 5    \* a second timestamp (2.0e9)

NowTs == MsTs + 1000           \* time.time() * 1000, in timestamp units

GoodTuple(ts, close) == <<ts, 3, 3, 2, close, 12>>

Payload(kind, val, items, lastPrice, time) ==
    [kind |-> kind, val |-> val, items |-> items, lastPrice |-> lastPrice, time |-> time]

PNone == Payload("none", 0, <<>>, NoneV, NoneV)
PZero == Payload("int", 0, <<>>, NoneV, NoneV)
PInt == Payload("int", 5, <<>>, NoneV, NoneV)
PEmptyList == Payload("list", 0, <<>>, NoneV, NoneV)
PEmptyTuple == Payload("list", 0, << <<>> >>, NoneV, NoneV)
PShortTuple == Payload("list", 0, << GoodTuple(MsTs, 3), <<MsTs, 3, 3, 2, 3>> >>, NoneV, NoneV)
POther == Payload("other", 0, <<>>, NoneV, NoneV)
\* an array (numpy, pandas): its comparison with 0 has no truth value
PArray == Payload("array", 0, <<>>, NoneV, NoneV)
PBadNumber == Payload("list", 0, << <<MsTs, 3, 3, 2, NaN, 12>> >>, NoneV, NoneV)
PBar == Payload("list", 0, << GoodTuple(MsTs, 3) >>, NoneV, NoneV)
PBars == Payload("list", 0, << GoodTuple(SecTs, 2), GoodTuple(MsTs, 3) >>, NoneV, NoneV)
PTick == Payload("dict", 0, <<>>, 3, MsTs)
PTickNoPrice == Payload("dict", 0, <<>>, NoneV, MsTs)
PTickZeroPrice == Payload("dict", 0, <<>>, 0, NoneV)

\* the malformed payloads: none may reach the strategy
MalformedPayloads ==
    {PNone, PZero, PInt, PEmptyList, PEmptyTuple, PShortTuple, POther, PArray}

WellFormedPayloads == {PBar, PBars, PTick}

Payloads == MalformedPayloads \cup WellFormedPayloads
                \cup {PBadNumber, PTickNoPrice, PTickZeroPrice}

Entry(s, p) == [symbol |-> s, payload |-> p]

\* the dict handed to the callback, as the sequence of its items
Datas ==
    {<<Entry("A", p)>> : p \in Payloads}
    \cup {<<Entry("B", PBar)>>, <<Entry("X", PBar)>>}
    \cup {<<Entry("A", p), Entry("B", PBar)>> : p \in {PBar, PBadNumber}}
    \cup {<<Entry("X", PBar), Entry("A", PTick)>>}

Signals == {"hold", "buy", "sell", "None", "short"}

CashValues == {300, 301}

NoPositions == [s \in {} |-> 0]

PositionBooks == {NoPositions, [s \in {"A"} |-> 0], [s \in {"A"} |-> 250]}

----------------------------------------------------------------------------
(* Market-data normalisation: engine.py:148-196 *)

\* datetime.fromtimestamp(num / den), kept as the exact quotient
FromTimestamp(num, den) == [num |-> num, den |-> den]

\* BarDatetime with >= for > in engine.py:169
BarDatetime_AtLeast(timestamp) ==
    IF timestamp >= MsThreshold THEN FromTimestamp(timestamp, 1000)
    ELSE FromTimestamp(timestamp, 1)

\* engine.py:169: milliseconds when the timestamp is above 1e10
BarDatetime(timestamp) ==
    IF timestamp > MsThreshold THEN FromTimestamp(timestamp, 1000)
    ELSE FromTimestamp(timestamp, 1)

\* TickDatetime applying the magnitude rule of the list shape
TickDatetime_ByMagnitude(time) ==
    IF (IF time = NoneV THEN NowTs ELSE time) > MsThreshold
    THEN FromTimestamp(IF time = NoneV THEN NowTs ELSE time, 1000)
    ELSE FromTimestamp(IF time = NoneV THEN NowTs ELSE time, 1)

\* engine.py:187: tick_data.get('time', time.time() * 1000) / 1000
TickDatetime(time) ==
    FromTimestamp(IF time = NoneV THEN NowTs ELSE time, 1000)

NoBar == [datetime |-> FromTimestamp(0, 1), open |-> NoneV, high |-> NoneV,
          low |-> NoneV, close |-> NoneV, volume |-> NoneV]

Skip == [result |-> "skip", bar |-> NoBar, price |-> NoneV]
Raise == [result |-> "raise", bar |-> NoBar, price |-> NoneV]
Accepted(bar, price) == [result |-> "bar", bar |-> bar, price |-> price]

\* engine.py:150: tick_data is None or tick_data == 0 or tick_data == []
IsEmptyPayload(p) ==
    \/ p.kind = "none"
    \/ p.kind = "int" /\ p.val = 0
    \/ p.kind = "list" /\ p.items = <<>>

\* NormalizeList without the length test of engine.py:163-165: a field the
\* tuple lacks reads as None
TupleField(tuple, i) == IF i <= Len(tuple) THEN tuple[i] ELSE NoneV

NormalizeList_NoLengthTest(p) ==
    IF Len(p.items) = 0 THEN Skip
    ELSE LET latest_bar == p.items[Len(p.items)] IN
         IF \E i \in 2..6 : TupleField(latest_bar, i) = NaN THEN Raise
         ELSE Accepted([datetime |-> BarDatetime(TupleField(latest_bar, 1)),
                        open |-> TupleField(latest_bar, 2),
                        high |-> TupleField(latest_bar, 3),
                        low |-> TupleField(latest_bar, 4),
                        close |-> TupleField(latest_bar, 5),
                        volume |-> TupleField(latest_bar, 6)],
                       TupleField(latest_bar, 5))

\* NormalizeList reading the first tuple of the list for the last
NormalizeList_FirstTuple(p) ==
    IF Len(p.items) = 0 THEN Skip
    ELSE LET latest_bar == p.items[1] IN
         IF Len(latest_bar) < BarFields THEN Skip
         ELSE IF \E i \in 2..6 : latest_bar[i] = NaN THEN Raise
         ELSE Accepted([datetime |-> BarDatetime(latest_bar[1]),
                        open |-> latest_bar[2], high |-> latest_bar[3],
                        low |-> latest_bar[4], close |-> latest_bar[5],
                        volume |-> latest_bar[6]],
                       latest_bar[5])

\* engine.py:155-178: the list (bar stream) shape
NormalizeList(p) ==
    IF Len(p.items) = 0 THEN Skip
    ELSE LET latest_bar == p.items[Len(p.items)] IN
         IF Len(latest_bar) < BarFields THEN Skip
         ELSE IF \E i \in 2..6 : latest_bar[i] = NaN THEN Raise
         ELSE Accepted([datetime |-> BarDatetime(latest_bar[1]),
                        open |-> latest_bar[2], high |-> latest_bar[3],
                        low |-> latest_bar[4], close |-> latest_bar[5],
                        volume |-> latest_bar[6]],
                       latest_bar[5])

\* engine.py:181-193: the dict (tick) shape
NormalizeDict(p) ==
    IF p.lastPrice = NoneV \/ p.lastPrice = 0 THEN Skip
    ELSE Accepted([datetime |-> TickDatetime(p.time),
                   open |-> NoneV, high |-> NoneV, low |-> NoneV,
                   close |-> p.lastPrice, volume |-> NoneV],
                  p.lastPrice)

\* engine.py:148-196: what the body of the try block does with one payload
\* before it reaches the strategy
Normalize(p) ==
    IF p.kind = "array" THEN Raise
    ELSE IF IsEmptyPayload(p) THEN Skip
    ELSE IF p.kind = "list" THEN NormalizeList(p)
    ELSE IF p.kind = "dict" THEN NormalizeDict(p)
    ELSE Skip

----------------------------------------------------------------------------
(* The frame of one _on_market_data call *)

Call(op, symbol, price, qty, ret, raised) ==
    [op |-> op, symbol |-> symbol, price |-> price, qty |-> qty, ret |-> ret,
     raised |-> raised]

\* the locals of one pass of the for loop, before the pass has set them
ClearLocals(c) ==
    [c EXCEPT !.symbol = "", !.price = NoneV, !.signal = "", !.current_pos = NoneV,
              !.available_cash = NoneV, !.bars = <<>>, !.calls = <<>>, !.outcome = ""]

IdleFrame ==
    [pc |-> "idle", data |-> <<>>, idx |-> 1, symbol |-> "", price |-> NoneV,
     signal |-> "", current_pos |-> NoneV, available_cash |-> NoneV,
     bars |-> <<>>, calls |-> <<>>, outcome |-> "", prior_raise |-> FALSE,
     escaped |-> FALSE]

\* the pass ends: pc "next" is the end of the body of the for loop, where the
\* frame still shows what the pass did (outcome) before the loop goes on
FinishEntry(c, outcome) ==
    [c EXCEPT !.pc = "next", !.outcome = outcome]

\* Catch without the except clause: the exception leaves the callback
Catch_Escapes(c) ==
    [IdleFrame EXCEPT !.escaped = TRUE, !.prior_raise = TRUE]

\* engine.py:202-205: except Exception: log, and the for loop goes on
Catch(c) == FinishEntry(c, "raised")

\* OrderManager.get_positions() and get_asset(): each call is a fresh round trip
\* to the gateway, nothing is cached
OrderManagerPositions == positions

OrderManagerAsset == cash

\* position_map.get(symbol, 0), engine.py:218-219
PositionVolume(book, symbol) ==
    IF symbol \in DOMAIN book THEN book[symbol] ELSE 0

----------------------------------------------------------------------------
(* Initial state: after LiveTradeEngine.__init__, engine.py:43-57 *)

\* what a normalisation on its own shows before it has run
Pending == [result |-> "pending", bar |-> NoBar, price |-> NoneV]

EngineInit ==
    /\ xt_trader = FALSE
    /\ order_manager = FALSE
    /\ running = FALSE
    /\ pc_main = "idle"
    /\ connect_ret = "none"
    /\ n_connects = 0
    /\ acct_subs = 0
    /\ quote_subs = {}
    /\ stop_calls = 0
    /\ on_stop_calls = 0
    /\ trader_stops = 0
    /\ cash \in CashValues
    /\ positions \in PositionBooks
    /\ cb = [t \in Threads |-> IdleFrame]
    /\ session_ids = <<>>
    /\ stop_in_start = FALSE
    /\ now = 0

Init ==
    /\ EngineInit
    /\ proc = "none"
    /\ norm_in = PNone
    /\ norm_out = Pending

----------------------------------------------------------------------------
(* Session lifecycle: connect, start, stop *)

\* engine.py:59-89, res is what xt_trader.connect() returns; the session id
\* is int(time.time()), engine.py:66-69
ConnectBody(res) ==
    /\ n_connects < MaxConnects
    /\ n_connects' = n_connects + 1
    /\ session_ids' = Append(session_ids, now)
    /\ xt_trader' = TRUE
    /\ IF res = 0
       THEN /\ acct_subs' = acct_subs + 1
            /\ order_manager' = TRUE
            /\ connect_ret' = "True"
       ELSE /\ connect_ret' = "False"
            /\ UNCHANGED <<acct_subs, order_manager>>

\* a call of connect() from outside start()
ConnectCall(res) ==
    /\ pc_main = "idle"
    /\ ConnectBody(res)
    /\ UNCHANGED <<running, pc_main, quote_subs, stop_calls, on_stop_calls,
                   trader_stops, cash, positions, cb, stop_in_start, aside>>

\* the caller calls connect()
Connect(res) ==
    /\ ConnectCall(res)
    /\ UNCHANGED proc

\* engine.py:96-98: start() up to the point where running is set
StartCall(res) ==
    /\ pc_main = "idle"
    /\ IF ~xt_trader
       THEN /\ ConnectBody(res)
            /\ pc_main' = IF res = 0 THEN "set_running" ELSE "idle"
       ELSE /\ res = 0
            /\ pc_main' = "set_running"
            /\ UNCHANGED <<xt_trader, order_manager, connect_ret, n_connects, acct_subs,
                           session_ids>>
    /\ stop_in_start' = FALSE
    /\ UNCHANGED <<running, quote_subs, stop_calls, on_stop_calls, trader_stops,
                   cash, positions, cb, aside>>

\* the caller calls start()
StartEnter(res) ==
    /\ StartCall(res)
    /\ UNCHANGED proc

\* engine.py:100
StartSetRunning ==
    /\ pc_main = "set_running"
    /\ running' = TRUE
    /\ pc_main' = "subscribe"
    /\ UNCHANGED <<xt_trader, order_manager, connect_ret, n_connects, acct_subs,
                   quote_subs, stop_calls, on_stop_calls, trader_stops, cash,
                   positions, cb, session_ids, stop_in_start, aside, proc>>

\* engine.py:105-107
StartSubscribe ==
    /\ pc_main = "subscribe"
    /\ quote_subs' = quote_subs \cup SubscribedSet
    /\ pc_main' = "loop"
    /\ UNCHANGED <<xt_trader, order_manager, running, connect_ret, n_connects,
                   acct_subs, stop_calls, on_stop_calls, trader_stops, cash,
                   positions, cb, session_ids, stop_in_start, aside, proc>>

\* engine.py:105-107: xtdata.subscribe_quote raises after k symbols were
\* subscribed; nothing in start() catches it, so start() raises to its caller
StartSubscribeRaises(k) ==
    /\ pc_main = "subscribe"
    /\ quote_subs' = quote_subs \cup {EngineSymbols[i] : i \in 1..k}
    /\ pc_main' = "raised"
    /\ UNCHANGED <<xt_trader, order_manager, running, connect_ret, n_connects,
                   acct_subs, stop_calls, on_stop_calls, trader_stops, cash,
                   positions, cb, session_ids, stop_in_start, aside, proc>>

\* engine.py:111-112: the while test finds running false and start() returns
LoopExit ==
    /\ pc_main = "loop"
    /\ ~running
    /\ pc_main' = "idle"
    /\ stop_in_start' = FALSE
    /\ UNCHANGED <<xt_trader, order_manager, running, connect_ret, n_connects,
                   acct_subs, quote_subs, stop_calls, on_stop_calls, trader_stops,
                   cash, positions, cb, session_ids, aside, proc>>

\* engine.py:116-124
StopBody ==
    /\ stop_calls < MaxStopCalls
    /\ stop_calls' = stop_calls + 1
    /\ running' = FALSE
    /\ on_stop_calls' = on_stop_calls + 1
    /\ trader_stops' = IF xt_trader THEN trader_stops + 1 ELSE trader_stops

\* the positions of start() at or after its connection step
InStart == {"set_running", "subscribe", "loop"}

\* stop() called by the caller or by another thread
Stop ==
    /\ StopBody
    /\ stop_in_start' = (stop_in_start \/ pc_main \in InStart)
    /\ UNCHANGED <<xt_trader, order_manager, pc_main, connect_ret, n_connects,
                   acct_subs, quote_subs, cash, positions, cb, session_ids, aside,
                   proc>>

\* engine.py:113-114: KeyboardInterrupt in the main loop
Interrupt ==
    /\ pc_main = "loop"
    /\ StopBody
    /\ pc_main' = "idle"
    /\ stop_in_start' = FALSE
    /\ UNCHANGED <<xt_trader, order_manager, connect_ret, n_connects, acct_subs,
                   quote_subs, cash, positions, cb, session_ids, aside, proc>>

\* a second of wall-clock time passes
Tick ==
    /\ now < MaxClock
    /\ now' = now + 1
    /\ UNCHANGED <<lifecycle, gateway, cb, proc, norm_in, norm_out>>

----------------------------------------------------------------------------
(* The gateway's account changes on its own (fills, transfers) *)

GatewayChange(c, book) ==
    /\ <<c, book>> # <<cash, positions>>
    /\ cash' = c
    /\ positions' = book
    /\ UNCHANGED <<lifecycle, cb, aside, proc>>

----------------------------------------------------------------------------
(* The market-data callback: engine.py:126-205 and 207-238 *)

\* xtdata calls self._on_market_data(data) on thread t
Deliver(t, data) ==
    /\ quote_subs # {}
    /\ cb[t].pc = "idle"
    /\ cb' = [cb EXCEPT ![t] = [IdleFrame EXCEPT !.pc = "iter", !.data = data,
                                               !.prior_raise = cb[t].prior_raise]]
    /\ UNCHANGED <<lifecycle, gateway, aside, proc>>

\* NextEntry without the symbol test of engine.py:145-146
NextEntry_NoSymbolTest(c) ==
    IF c.idx > Len(c.data) THEN [IdleFrame EXCEPT !.prior_raise = c.prior_raise]
    ELSE LET e == c.data[c.idx]
             n == Normalize(e.payload)
             d == [c EXCEPT !.symbol = e.symbol]
         IN IF n.result = "skip" THEN FinishEntry(d, "skipped")
            ELSE IF n.result = "raise" THEN Catch(d)
            ELSE [d EXCEPT !.pc = "on_bar", !.price = n.price, !.bars = <<n.bar>>]

\* engine.py:144-196: the next item of data, up to the call of on_bar
NextEntry(c) ==
    IF c.idx > Len(c.data) THEN [IdleFrame EXCEPT !.prior_raise = c.prior_raise]
    ELSE LET e == c.data[c.idx]
             n == Normalize(e.payload)
             d == [c EXCEPT !.symbol = e.symbol]
         IN IF e.symbol \notin SubscribedSet THEN FinishEntry(d, "unsubscribed")
            ELSE IF n.result = "skip" THEN FinishEntry(d, "skipped")
            ELSE IF n.result = "raise" THEN Catch(d)
            ELSE [d EXCEPT !.pc = "on_bar", !.price = n.price, !.bars = <<n.bar>>]

Iterate(t) ==
    /\ cb[t].pc = "iter"
    /\ cb' = [cb EXCEPT ![t] = NextEntry(cb[t])]
    /\ UNCHANGED <<lifecycle, gateway, aside, proc>>

\* the for loop takes the next item: the locals of the pass are gone
Advance(c) ==
    ClearLocals([c EXCEPT !.pc = "iter", !.idx = @ + 1,
                          !.prior_raise = @ \/ c.outcome = "raised"])

Continue(t) ==
    /\ cb[t].pc = "next"
    /\ cb' = [cb EXCEPT ![t] = Advance(cb[t])]
    /\ UNCHANGED <<lifecycle, gateway, aside, proc>>

\* AfterSignal without the hold test of engine.py:211-212
AfterSignal_NoHoldTest(c, signal) ==
    [c EXCEPT !.signal = signal, !.pc = "get_positions"]

\* engine.py:211-212: the hold test that opens _handle_signal
AfterSignal(c, signal) ==
    IF signal = "hold" THEN FinishEntry([c EXCEPT !.signal = signal], "handled")
    ELSE [c EXCEPT !.signal = signal, !.pc = "get_positions"]

\* engine.py:199-200: strategy.on_bar(bar) returns signal
OnBarReturn(t, signal) ==
    /\ cb[t].pc = "on_bar"
    /\ cb' = [cb EXCEPT ![t] = AfterSignal(cb[t], signal)]
    /\ UNCHANGED <<lifecycle, gateway, aside, proc>>

\* engine.py:199: strategy.on_bar(bar) raises
OnBarRaise(t) ==
    /\ cb[t].pc = "on_bar"
    /\ cb' = [cb EXCEPT ![t] = Catch(cb[t])]
    /\ UNCHANGED <<lifecycle, gateway, aside, proc>>

\* engine.py:217-219; with order_manager None the attribute access raises
ReadPositions(c, fails) ==
    IF fails \/ ~order_manager THEN Catch(c)
    ELSE LET v == PositionVolume(OrderManagerPositions, c.symbol)
         IN [c EXCEPT !.pc = "get_asset", !.current_pos = v,
                      !.calls = Append(@, Call("get_positions", c.symbol, NoneV, NoneV, v, FALSE))]

GetPositions(t, fails) ==
    /\ cb[t].pc = "get_positions"
    /\ cb' = [cb EXCEPT ![t] = ReadPositions(cb[t], fails)]
    /\ UNCHANGED <<lifecycle, gateway, aside, proc>>

\* ReadAsset answering from a figure kept from earlier instead of asking the
\* gateway
ReadAsset_Cached(c, fails) ==
    IF fails \/ ~order_manager THEN Catch(c)
    ELSE [c EXCEPT !.pc = "decide",
                   !.available_cash = CHOOSE v \in CashValues : \A w \in CashValues : v >= w]

\* engine.py:221-222
ReadAsset(c, fails) ==
    IF fails \/ ~order_manager THEN Catch(c)
    ELSE LET a == OrderManagerAsset
         IN [c EXCEPT !.pc = "decide", !.available_cash = a,
                      !.calls = Append(@, Call("get_asset", c.symbol, NoneV, NoneV, a, FALSE))]

GetAsset(t, fails) ==
    /\ cb[t].pc = "get_asset"
    /\ cb' = [cb EXCEPT ![t] = ReadAsset(cb[t], fails)]
    /\ UNCHANGED <<lifecycle, gateway, aside, proc>>

\* Submit trying the order a second time when the gateway call raises
Submit_Retry(c, op, qty, fails) ==
    LET d == [c EXCEPT !.calls = Append(@, Call(op, c.symbol, c.price, qty, NoneV, fails))]
        r == [d EXCEPT !.calls = Append(@, Call(op, c.symbol, c.price, qty, NoneV, FALSE))]
    IN IF fails THEN FinishEntry(r, "handled") ELSE FinishEntry(d, "handled")

\* the order_manager.buy / sell call; the gateway may raise on it
Submit(c, op, qty, fails) ==
    LET d == [c EXCEPT !.calls = Append(@, Call(op, c.symbol, c.price, qty, NoneV, fails))]
    IN IF fails THEN Catch(d) ELSE FinishEntry(d, "handled")

\* BuyBranch holding back the cost of the buy orders that other callbacks have
\* just submitted (a reservation of funds between check and submit)
BuyBranch_Reserving(c, fails) ==
    LET cost == c.price * LotSize
        pending == {u \in Threads : /\ cb[u] # c
                                    /\ cb[u].pc = "next"
                                    /\ Len(cb[u].calls) = 3
                                    /\ cb[u].calls[3].op = "buy"}
    IN IF c.available_cash - Cardinality(pending) * cost > cost
       THEN Submit(c, "buy", LotSize, fails)
       ELSE FinishEntry(c, "handled")

\* BuyBranch with >= for > in engine.py:228
BuyBranch_NotStrict(c, fails) ==
    LET cost == c.price * LotSize
    IN IF c.available_cash >= cost THEN Submit(c, "buy", LotSize, fails)
       ELSE FinishEntry(c, "handled")

\* engine.py:227-231
BuyBranch(c, fails) ==
    LET cost == c.price * LotSize
    IN IF c.available_cash > cost THEN Submit(c, "buy", LotSize, fails)
       ELSE FinishEntry(c, "handled")

\* SellBranch selling the fixed lot instead of current_pos
SellBranch_FixedLot(c, fails) ==
    IF c.current_pos > 0 THEN Submit(c, "sell", LotSize, fails)
    ELSE FinishEntry(c, "handled")

\* engine.py:233-238
SellBranch(c, fails) ==
    IF c.current_pos > 0 THEN Submit(c, "sell", c.current_pos, fails)
    ELSE FinishEntry(c, "handled")

\* Guard with a plain else for the elif of engine.py:233
Guard_ElseSell(c, fails) ==
    IF c.signal = "buy" THEN BuyBranch(c, fails)
    ELSE SellBranch(c, fails)

\* engine.py:224-238
Guard(c, fails) ==
    IF c.signal = "buy" THEN BuyBranch(c, fails)
    ELSE IF c.signal = "sell" THEN SellBranch(c, fails)
    ELSE FinishEntry(c, "handled")

\* whether the guard of c reaches an order_manager.buy / sell call
Submits(c) ==
    \/ c.signal = "buy" /\ c.available_cash > c.price * LotSize
    \/ c.signal = "sell" /\ c.current_pos > 0

Decide(t, fails) ==
    /\ cb[t].pc = "decide"
    /\ fails => Submits(cb[t])
    /\ cb' = [cb EXCEPT ![t] = Guard(cb[t], fails)]
    /\ UNCHANGED <<lifecycle, gateway, aside, proc>>

----------------------------------------------------------------------------
(* Specifications *)

\* the data the gateway delivers while two callbacks run concurrently
ConcurrentDatas == {<<Entry(s, PBar)>> : s \in SubscribedSet}

Lifecycle ==
    \/ \E res \in {0, -1} : Connect(res)
    \/ \E res \in {0, -1} : StartEnter(res)
    \/ StartSetRunning
    \/ StartSubscribe
    \/ LoopExit
    \/ Stop
    \/ Interrupt

Callback(t) ==
    \/ Iterate(t)
    \/ Continue(t)
    \/ \E signal \in Signals : OnBarReturn(t, signal)
    \/ OnBarRaise(t)
    \/ \E fails \in BOOLEAN : GetPositions(t, fails)
    \/ \E fails \in BOOLEAN : GetAsset(t, fails)
    \/ \E fails \in BOOLEAN : Decide(t, fails)

\* callbacks arrive one at a time
Next ==
    \/ Lifecycle
    \/ \E c \in CashValues, book \in PositionBooks : GatewayChange(c, book)
    \/ \E data \in Datas : Deliver(1, data)
    \/ Callback(1)

Spec == Init /\ [][Next]_vars

\* The engine after connect() returned True and start() reached its main loop
\* (Connect(0), StartEnter(0), StartSetRunning, StartSubscribe from Init)
Started ==
    /\ xt_trader = TRUE
    /\ order_manager = TRUE
    /\ running = TRUE
    /\ pc_main = "loop"
    /\ connect_ret = "True"
    /\ n_connects = 1
    /\ acct_subs = 1
    /\ quote_subs = SubscribedSet
    /\ stop_calls = 0
    /\ on_stop_calls = 0
    /\ trader_stops = 0
    /\ cb = [t \in Threads |-> IdleFrame]
    /\ session_ids = <<0>>
    /\ stop_in_start = FALSE
    /\ now = 0
    /\ proc = "none"
    /\ norm_in = PNone
    /\ norm_out = Pending

InitStarted ==
    /\ Started
    /\ cash \in CashValues
    /\ positions \in PositionBooks

\* callbacks arrive on two threads of the gateway, which may run at the same time
NextConcurrent ==
    \/ Stop
    \/ LoopExit
    \/ \E t \in Threads, data \in ConcurrentDatas : Deliver(t, data)
    \/ \E t \in Threads : Callback(t)

SpecConcurrent == InitStarted /\ [][NextConcurrent]_vars

\* the session on its own, with the wall clock
NextSession ==
    \/ Lifecycle
    \/ Tick

SpecSession == Init /\ [][NextSession]_vars

\* no callback is in progress
AllIdle == \A t \in Threads : cb[t].pc = "idle"

\* stop() called from another thread at a moment between two callbacks
StopBetweenCallbacks == AllIdle /\ Stop

\* the session with stop() kept out of the callbacks' way: running goes from
\* true to false only while no callback is in progress, so a callback that is
\* in progress while running is false arrived while running was false
NextStopped ==
    \/ \E res \in {0, -1} : Connect(res)
    \/ \E res \in {0, -1} : StartEnter(res)
    \/ StartSetRunning
    \/ StartSubscribe
    \/ LoopExit
    \/ StopBetweenCallbacks
    \/ \E data \in ConcurrentDatas : Deliver(1, data)
    \/ Callback(1)

SpecStopped == Init /\ [][NextStopped]_vars

----------------------------------------------------------------------------
(* Normalisation on its own: engine.py:148-196 applied to one payload *)

\* timestamps around the 1e10 threshold of engine.py:169
TsValues == {SecTs, MsThreshold - 1, MsThreshold, MsThreshold + 1, MsTs}

Closes == {1, 2, 3}

ListInputs ==
    {Payload("list", 0, << GoodTuple(ts, c) >>, NoneV, NoneV) : ts \in TsValues, c \in Closes}
    \cup {Payload("list", 0, << GoodTuple(MsTs, 1), GoodTuple(ts, c) >>, NoneV, NoneV) :
              ts \in TsValues, c \in Closes}

TickInputs ==
    {Payload("dict", 0, <<>>, c, ts) : ts \in TsValues \cup {NoneV}, c \in Closes}

NormInputs == Payloads \cup ListInputs \cup TickInputs

InitNormalize ==
    /\ EngineInit
    /\ proc = "none"
    /\ norm_in \in NormInputs
    /\ norm_out = Pending

\* engine.py:148-196 on the payload norm_in
ApplyNormalize ==
    /\ norm_out = Pending
    /\ norm_out' = Normalize(norm_in)
    /\ UNCHANGED <<lifecycle, gateway, cb, proc, now, norm_in>>

\* the next payload
NewInput(p) ==
    /\ norm_out # Pending
    /\ norm_in' = p
    /\ norm_out' = Pending
    /\ UNCHANGED <<lifecycle, gateway, cb, proc, now>>

NextNormalize ==
    \/ ApplyNormalize
    \/ \E p \in NormInputs : NewInput(p)

SpecNormalize == InitNormalize /\ [][NextNormalize]_vars

----------------------------------------------------------------------------
(* The launching script: main() of run_rsi_live_510050.py, lines 132-145 *)

InitScript ==
    /\ EngineInit
    /\ proc = "try"
    /\ norm_in = PNone
    /\ norm_out = Pending

\* run_rsi_live_510050.py:135-139: engine.connect(); on False the error is
\* logged and main() ends
MainConnect(res) ==
    /\ proc = "try"
    /\ ConnectCall(res)
    /\ proc' = IF res = 0 THEN "start" ELSE "ended"

\* run_rsi_live_510050.py:137: engine.start() is called
MainStart ==
    /\ proc = "start"
    /\ StartCall(0)
    /\ proc' = "in_start"

\* run_rsi_live_510050.py:140-145: the exception that left start() is logged,
\* the finally block logs the end of the session and main() ends
MainExcept ==
    /\ proc = "in_start"
    /\ pc_main = "raised"
    /\ proc' = "crashed"
    /\ pc_main' = "idle"
    /\ UNCHANGED <<xt_trader, order_manager, running, connect_ret, n_connects,
                   acct_subs, quote_subs, stop_calls, on_stop_calls, trader_stops,
                   cash, positions, cb, session_ids, stop_in_start, aside>>

\* run_rsi_live_510050.py:137 and 144-145: start() returned, main() ends
MainReturn ==
    /\ proc = "in_start"
    /\ pc_main = "idle"
    /\ proc' = "ended"
    /\ UNCHANGED <<lifecycle, gateway, cb, aside>>

\* the script's process: main() on the main thread, the callbacks on the
\* gateway's thread; nothing in the script calls engine.stop()
NextScript ==
    \/ \E res \in {0, -1} : MainConnect(res)
    \/ MainStart
    \/ StartSetRunning
    \/ StartSubscribe
    \/ \E k \in 0..(Len(EngineSymbols) - 1) : StartSubscribeRaises(k)
    \/ Interrupt
    \/ MainExcept
    \/ MainReturn
    \/ \E data \in ConcurrentDatas : Deliver(1, data)
    \/ Callback(1)

SpecScript == InitScript /\ [][NextScript]_vars

----------------------------------------------------------------------------
(* Vocabulary of the properties *)

\* the indexes of the order submissions among the gateway calls of a pass
OrderCalls(c) == {k \in 1..Len(c.calls) : c.calls[k].op \in {"buy", "sell"}}

\* the item of data the frame is at
Current(c) == c.data[c.idx]

InPass(c) == c.pc # "idle" /\ c.idx <= Len(c.data)

\* the pass has come to its decision: both snapshots were read
Decided(c) == c.pc = "next" /\ c.available_cash # NoneV

----------------------------------------------------------------------------
(* Session lifecycle *)

\* C1: two stop() calls in sequence invoke the strategy's on_stop exactly once
\* in total.
C1_StopTwiceOneOnStop == stop_calls >= 2 => on_stop_calls = 1

\* C2: while the most recent connect() is one that returned the failure value,
\* no step sets running to true, subscribes the account or subscribes to
\* market data.
C2_FailedConnectBlocksStart ==
    [][(connect_ret = "False" /\ connect_ret' = "False")
        => /\ running' => running
           /\ acct_subs' = acct_subs
           /\ quote_subs' = quote_subs]_vars

----------------------------------------------------------------------------
(* The market-data callback *)

\* C3: an exception raised while one item is processed never leaves the
\* callback and no step of the callback changes running; an item that follows
\* a failed one (in the same data or in a later callback) is processed like
\* any other: a well-formed payload of a subscribed symbol reaches on_bar, and
\* when its pass comes to a decision whose guard is met the order is submitted.
C3_Processed(c) ==
    /\ c.symbol = Current(c).symbol
    /\ (c.symbol \in SubscribedSet /\ Normalize(Current(c).payload).result = "bar")
          => /\ Len(c.bars) = 1
             /\ c.outcome \in {"handled", "raised"}
             /\ (Decided(c) /\ Submits(c)) => Cardinality(OrderCalls(c)) = 1

C3_Isolated ==
    \A t \in Threads :
        /\ ~cb[t].escaped
        /\ cb[t].pc = "idle" => cb[t].data = <<>>
        /\ cb[t].pc # "idle" => cb[t].idx <= Len(cb[t].data) + 1
        /\ (cb[t].pc = "next" /\ cb[t].prior_raise) => C3_Processed(cb[t])

C3_PerUpdateIsolation ==
    [][/\ cb' # cb => running' = running
       /\ C3_Isolated'
       /\ \A t \in Threads :
             (cb[t].pc = "next" /\ cb[t].idx < Len(cb[t].data))
                => (cb'[t] = cb[t] \/ (cb'[t].pc = "iter" /\ cb'[t].idx = cb[t].idx + 1))]_vars

\* witness of C3: the first item raised in normalisation and the second item,
\* for another symbol, got its buy order
C3_Witness ==
    \E t \in Threads :
        /\ cb[t].pc = "next" /\ cb[t].idx = 2 /\ cb[t].prior_raise
        /\ cb[t].data[1].payload = PBadNumber
        /\ cb[t].symbol = "B"
        /\ OrderCalls(cb[t]) = {3}
        /\ cb[t].calls[3].op = "buy"

\* C4: a malformed payload of a subscribed symbol is skipped: on_bar is not
\* called, no gateway query or order is made, nothing is raised to the caller
\* (an array fails inside the try block and is caught there).
C4_MalformedSkipped ==
    \A t \in Threads :
        (InPass(cb[t]) /\ Current(cb[t]).payload \in MalformedPayloads
                       /\ Current(cb[t]).symbol \in SubscribedSet)
            => /\ cb[t].bars = <<>>
               /\ cb[t].calls = <<>>
               /\ cb[t].pc \in {"iter", "next"}
               /\ cb[t].pc = "next"
                     => cb[t].outcome = IF Current(cb[t]).payload = PArray
                                        THEN "raised" ELSE "skipped"
               /\ ~cb[t].escaped

\* witness of C4: a list whose last tuple has five fields was skipped
C4_Witness ==
    \E t \in Threads :
        /\ cb[t].pc = "next" /\ cb[t].outcome = "skipped"
        /\ cb[t].symbol \in SubscribedSet
        /\ Current(cb[t]).payload = PShortTuple

\* C5: a buy decision at price p submits exactly one buy order of 100 at p
\* when the cash read in that decision is above p * 100, and no order
\* otherwise; no order exists in a pass before its own decision.
C5_BuyGuard ==
    \A t \in Threads :
        LET c == cb[t] IN
        /\ (Decided(c) /\ c.signal = "buy")
              => /\ c.price = c.bars[1].close
                 /\ c.calls[2].ret > c.price * 100
                       => /\ OrderCalls(c) = {3}
                          /\ c.calls[3] = Call("buy", c.symbol, c.price, 100, NoneV,
                                               c.calls[3].raised)
                 /\ c.calls[2].ret <= c.price * 100 => OrderCalls(c) = {}
        /\ c.pc # "next" => OrderCalls(c) = {}

\* witness of C5: cash 301 at price 3, one buy order of 100
C5_Witness ==
    \E t \in Threads :
        /\ Decided(cb[t]) /\ cb[t].signal = "buy"
        /\ cb[t].calls[2].ret = 301 /\ cb[t].price = 3
        /\ OrderCalls(cb[t]) = {3}

\* C6: a sell decision for S submits exactly one sell order for the whole
\* volume read for S when that volume is above 0, and no order when the
\* volume is 0 or S has no position.
C6_SellAll ==
    \A t \in Threads :
        LET c == cb[t] IN
        (Decided(c) /\ c.signal = "sell")
            => /\ c.calls[1].op = "get_positions"
               /\ c.calls[1].symbol = c.symbol
               /\ c.calls[1].ret > 0
                     => /\ OrderCalls(c) = {3}
                        /\ c.calls[3] = Call("sell", c.symbol, c.price, c.calls[1].ret,
                                             NoneV, c.calls[3].raised)
               /\ c.calls[1].ret <= 0 => OrderCalls(c) = {}

\* witness of C6: a position of 250 was sold whole
C6_Witness ==
    \E t \in Threads :
        /\ Decided(cb[t]) /\ cb[t].signal = "sell"
        /\ cb[t].calls[1].ret = 250
        /\ OrderCalls(cb[t]) = {3}
        /\ cb[t].calls[3].qty = 250

\* C7: a signal other than buy and sell never leads to an order, whatever the
\* cash and the positions are.
C7_OnlyBuySellOrder ==
    \A t \in Threads :
        cb[t].signal \notin {"buy", "sell"} => OrderCalls(cb[t]) = {}

\* witness of C7: an unrecognised signal came to the decision with cash above
\* the cost and a position held
C7_Witness ==
    \E t \in Threads :
        /\ Decided(cb[t])
        /\ cb[t].signal \in {"None", "short"}
        /\ cb[t].available_cash > cb[t].price * LotSize
        /\ cb[t].current_pos > 0

\* C8: handling a hold signal makes no gateway call and changes no engine or
\* gateway state: the pass ends at once.
C8_HoldNoEffect ==
    [][\A t \in Threads :
          (cb[t].pc = "on_bar" /\ cb'[t].signal = "hold")
             => /\ cb'[t].calls = <<>>
                /\ cb'[t].pc = "next"
                /\ cb'[t].outcome = "handled"
                /\ UNCHANGED <<lifecycle, gateway>>]_vars

\* witness of C8: a pass that ended on hold
C8_Witness ==
    \E t \in Threads :
        cb[t].pc = "next" /\ cb[t].signal = "hold" /\ cb[t].calls = <<>>

\* C9: an order submission comes third in its pass, after a position query and
\* an asset query of the same pass, and the guard used what those queries
\* returned; before a pass has made its queries it holds no cash or position
\* value.
C9_FreshSnapshot ==
    \A t \in Threads :
        LET c == cb[t] IN
        /\ \A k \in OrderCalls(c) :
              /\ k = 3
              /\ c.calls[1].op = "get_positions" /\ c.calls[1].symbol = c.symbol
              /\ c.calls[2].op = "get_asset"
              /\ c.current_pos = c.calls[1].ret
              /\ c.available_cash = c.calls[2].ret
              /\ c.calls[k].op = "buy" => c.calls[2].ret > c.calls[k].price * LotSize
              /\ c.calls[k].op = "sell" => c.calls[k].qty = c.calls[1].ret
        /\ c.pc \in {"idle", "iter", "on_bar", "get_positions"}
              => c.current_pos = NoneV /\ c.available_cash = NoneV
        /\ c.available_cash # NoneV
              => Len(c.calls) >= 2 /\ c.calls[2].op = "get_asset"
        /\ c.current_pos # NoneV
              => Len(c.calls) >= 1 /\ c.calls[1].op = "get_positions"

\* witness of C9: the second item of a callback got an order after its own
\* two queries
C9_Witness ==
    \E t \in Threads :
        /\ cb[t].pc = "next" /\ cb[t].idx = 2
        /\ cb[t].data[1].payload = PBar
        /\ OrderCalls(cb[t]) = {3}

\* C10: at most one on_bar call is in progress at any time.
C10_OneOnBarAtATime ==
    Cardinality({t \in Threads : cb[t].pc = "on_bar"}) <= 1

----------------------------------------------------------------------------
(* Concurrent callbacks: the check-then-act race *)

\* t is about to decide a buy that its own cash figure covers, while u has
\* already submitted a buy decided on the same figure, and the figure does not
\* cover both
C11_Racing(t, u) ==
    /\ t # u
    /\ cb[t].pc = "decide" /\ cb[t].signal = "buy"
    /\ cb[t].available_cash > cb[t].price * LotSize
    /\ cb[u].pc = "next" /\ OrderCalls(cb[u]) = {3} /\ cb[u].calls[3].op = "buy"
    /\ cb[u].available_cash = cb[t].available_cash
    /\ cb[t].price * LotSize + cb[u].price * LotSize > cb[t].available_cash

\* C11: nothing reserves funds between check and submit: a callback whose own
\* cash figure passes the check submits its buy although another callback has
\* already submitted a buy against the same figure, which covers only one.
C11_NoReservation ==
    [][\A t, u \in Threads :
          (C11_Racing(t, u) /\ cb'[t] # cb[t])
             => /\ cb'[t].pc = "next"
                /\ OrderCalls(cb'[t]) = {3}
                /\ cb'[t].calls[3].op = "buy"]_vars

\* witness of C11: both callbacks read the same cash, both passed the check
\* and both buy orders were submitted, the two costs exceeding the cash
C11_Witness ==
    \E t, u \in Threads :
        /\ t # u
        /\ \A w \in {t, u} :
              /\ cb[w].pc = "next" /\ cb[w].signal = "buy"
              /\ OrderCalls(cb[w]) = {3} /\ cb[w].calls[3].op = "buy"
              /\ cb[w].calls[2].ret > cb[w].price * LotSize
        /\ cb[t].calls[2].ret = cb[u].calls[2].ret
        /\ cb[t].calls[3].price * cb[t].calls[3].qty
             + cb[u].calls[3].price * cb[u].calls[3].qty > cb[t].calls[2].ret

----------------------------------------------------------------------------
(* Session: cancellation and session ids *)

\* C12: once stop() has been called on an engine whose start() is at or after
\* its connection step, on_stop has been called and the main loop finds
\* running false at its next test, so that start() returns.
C12_StopEndsLoop ==
    stop_in_start => /\ on_stop_calls >= 1
                     /\ pc_main = "loop" => ~running

\* C17: the session ids of any two connect() calls differ.
C17_SessionIdsDistinct ==
    \A i, j \in 1..Len(session_ids) : i # j => session_ids[i] # session_ids[j]

----------------------------------------------------------------------------
(* The launching script *)

\* C13: when an exception other than the interrupt has left start() or
\* connect() and main() has ended, stop() was attempted: on_stop was called
\* and the gateway session was released.
C13_StopOnFailure ==
    proc = "crashed" => on_stop_calls >= 1 /\ trader_stops >= 1

----------------------------------------------------------------------------
(* Timestamps *)

\* two datetimes are the same instant
SameInstant(d1, d2) == d1.num * d2.den = d2.num * d1.den

\* the timestamp of the tuple a list payload is read from
LastTimestamp(p) == p.items[Len(p.items)][1]

ListAccepted == norm_in.kind = "list" /\ norm_out.result = "bar"

TickAccepted == norm_in.kind = "dict" /\ norm_out.result = "bar" /\ norm_in.time # NoneV

\* C14 as claimed: a list timestamp t is divided by 1000 exactly when
\* t >= 10^10, t = 10^10 included.
C14_MsFromThreshold ==
    ListAccepted
        => /\ norm_out.bar.datetime.num = LastTimestamp(norm_in)
           /\ norm_out.bar.datetime.den = 1000 <=> LastTimestamp(norm_in) >= MsThreshold
           /\ norm_out.bar.datetime.den = 1 <=> LastTimestamp(norm_in) < MsThreshold

\* C14 as amended: a list timestamp t is divided by 1000 exactly when
\* t > 10^10; t = 10^10 and below is taken as seconds.
C14_MsAboveThreshold ==
    ListAccepted
        => /\ norm_out.bar.datetime.num = LastTimestamp(norm_in)
           /\ norm_out.bar.datetime.den = 1000 <=> LastTimestamp(norm_in) > MsThreshold
           /\ norm_out.bar.datetime.den = 1 <=> LastTimestamp(norm_in) <= MsThreshold

\* witness of C14: the timestamp 10^10 itself was taken as seconds
C14_Witness ==
    /\ ListAccepted
    /\ LastTimestamp(norm_in) = MsThreshold
    /\ norm_out.bar.datetime = FromTimestamp(MsThreshold, 1)

----------------------------------------------------------------------------
(* Submission failure, symbol scope, last tuple *)

\* the pass ended in the except clause after a buy or sell call
FailedSubmit(c) == c.pc = "next" /\ c.outcome = "raised" /\ OrderCalls(c) # {}

\* C16: when the gateway's buy or sell call raises, the pass holds that one
\* submission and no other, the step changes neither running nor the session,
\* and the loop goes on to the next item with no cash or position value kept,
\* so that the next decision takes both from queries of its own.
C16_SubmitFailureLocal ==
    [][\A t \in Threads :
          /\ Cardinality(OrderCalls(cb'[t])) <= 1
          /\ (cb[t].pc = "decide" /\ FailedSubmit(cb'[t]))
                => /\ Cardinality(OrderCalls(cb'[t])) = 1
                   /\ cb'[t].calls[Len(cb'[t].calls)].raised
                   /\ UNCHANGED lifecycle
          /\ (FailedSubmit(cb[t]) /\ cb'[t] # cb[t])
                => /\ cb'[t].pc = "iter" /\ cb'[t].idx = cb[t].idx + 1
                   /\ cb'[t].calls = <<>>
                   /\ cb'[t].available_cash = NoneV /\ cb'[t].current_pos = NoneV
          /\ (cb[t].prior_raise /\ cb[t].pc = "get_asset" /\ cb'[t].pc = "decide")
                => /\ cb'[t].available_cash = OrderManagerAsset
                   /\ cb'[t].calls[1].op = "get_positions"
                   /\ cb'[t].current_pos = cb'[t].calls[1].ret]_vars

\* witness of C16: a buy call raised while the session runs, and the pass
\* holds that call alone
C16_Witness ==
    \E t \in Threads :
        /\ FailedSubmit(cb[t]) /\ running
        /\ Len(cb[t].calls) = 3
        /\ cb[t].calls[3].op = "buy" /\ cb[t].calls[3].raised

\* C18: every call of a pass, order or query, names the symbol of the item the
\* pass is at, and that symbol is subscribed; an item for a symbol outside the
\* subscribed set gets no bar to on_bar, no query and no order.
C18_SymbolScope ==
    \A t \in Threads :
        InPass(cb[t]) =>
            /\ \A k \in 1..Len(cb[t].calls) :
                  cb[t].calls[k].op # "get_asset"
                     => /\ cb[t].calls[k].symbol = Current(cb[t]).symbol
                        /\ cb[t].calls[k].symbol \in SubscribedSet
            /\ Current(cb[t]).symbol \notin SubscribedSet
                  => /\ cb[t].bars = <<>> /\ cb[t].calls = <<>>
                     /\ cb[t].pc \in {"iter", "next"}
                     /\ cb[t].pc = "next" => cb[t].outcome = "unsubscribed"

\* witness of C18: the item of an unsubscribed symbol was passed over and the
\* item after it got an order for its own symbol
C18_Witness ==
    \E t \in Threads :
        /\ Len(cb[t].data) = 2 /\ cb[t].idx = 2
        /\ cb[t].data[1].symbol \notin SubscribedSet
        /\ OrderCalls(cb[t]) # {}
        /\ \A k \in OrderCalls(cb[t]) : cb[t].calls[k].symbol = cb[t].data[2].symbol

\* the last tuple of a list payload
LastTuple(p) == p.items[Len(p.items)]

\* C19: for a list payload of one or more tuples the pass gives on_bar one
\* bar, built from the last tuple, the price of the decision and of the order
\* is the close of the last tuple, and a pass that came to its end with
\* outcome "handled" gave on_bar exactly one bar.
C19_LastTupleOnly ==
    \A t \in Threads :
        LET c == cb[t] IN
        (InPass(c) /\ Current(c).payload.kind = "list" /\ Len(Current(c).payload.items) >= 1)
           => LET last == LastTuple(Current(c).payload) IN
              /\ Len(c.bars) <= 1
              /\ c.bars # <<>>
                    => /\ Len(last) >= BarFields
                       /\ c.bars[1] = [datetime |-> BarDatetime(last[1]), open |-> last[2],
                                       high |-> last[3], low |-> last[4],
                                       close |-> last[5], volume |-> last[6]]
                       /\ c.price = last[5]
              /\ \A k \in OrderCalls(c) : c.calls[k].price = c.price
              /\ c.calls # <<>> => Len(c.bars) = 1
              /\ (c.pc = "next" /\ c.outcome = "handled") => Len(c.bars) = 1

\* witness of C19: a list of two tuples with different closes got its order at
\* the close of the second
C19_Witness ==
    \E t \in Threads :
        /\ InPass(cb[t]) /\ Current(cb[t]).payload = PBars
        /\ Len(cb[t].bars) = 1
        /\ OrderCalls(cb[t]) # {}
        /\ \A k \in OrderCalls(cb[t]) : cb[t].calls[k].price = PBars.items[2][5]
        /\ PBars.items[1][5] # PBars.items[2][5]

\* C20 as claimed, where stop() runs between callbacks (SpecStopped): a
\* callback in progress while running is false, one that arrived after stop()
\* completed, has given no bar to on_bar and made no order.
C20_OnlyWhileRunning ==
    \A t \in Threads :
        (~running /\ cb[t].pc # "idle")
           => cb[t].bars = <<>> /\ OrderCalls(cb[t]) = {}

====
